---- MODULE Spec2Model ----
(***************************************************************************)
(* Observation-point chains of the OFF wake simulation:                    *)
(* off/observation_points.py (FLORIDynOPs4, FLORIDynOPs6) on top of the    *)
(* States base class.  One chain object is modelled; its table `states`    *)
(* is an n_time_steps x n_states matrix of IEEE doubles.                   *)
(***************************************************************************)
EXTENDS Integers, FiniteSets, Sequences, TLC

(***************************************************************************)
(* Bounds of the model.                                                    *)
(***************************************************************************)
MaxN == 5
MaxSets == 1

(***************************************************************************)
(* Doubles.  Every number the chain can hold for the inputs below is       *)
(*   - an integer a (exactly representable),                               *)
(*   - an integer a # 0 moved q representable doubles away (q > 0 up,      *)
(*     q < 0 down), or                                                     *)
(*   - the tiny double fl(b * e), e = cos(fl(pi/2)) = 0x1.1a62633145c07p-54*)
(*     (6.123233995736766e-17), which is what np.cos returns for 90 deg.   *)
(* The record is canonical: two records are equal iff the doubles are.     *)
(***************************************************************************)
Float(a, q, b) == [int |-> a, ulps |-> q, eps |-> b]

FromInt(a) == Float(a, 0, 0)

IsInt(v) == v.ulps = 0 /\ v.eps = 0

Abs(x) == IF x < 0 THEN -x ELSE x

Sgn(x) == IF x < 0 THEN -1 ELSE IF x > 0 THEN 1 ELSE 0

RECURSIVE Pow2(_)
Pow2(k) == IF k = 0 THEN 1 ELSE 2 * Pow2(k - 1)

\* floor(log2 |a|) of a non-zero integer: the binade of the double a
Exponent(a) == CHOOSE k \in 0..30 : Pow2(k) <= Abs(a) /\ Abs(a) < Pow2(k + 1)

IsPow2(a) == Abs(a) = Pow2(Exponent(a))

\* round-to-nearest of b*e in units of the spacing of doubles next to an
\* integer of binade k: e / 2^(k-52) = 0.27576594... / 2^k; the spacing is
\* halved below a power of two
RoundEps(b, k, halved) ==
    LET num == 27577 * b * (IF halved THEN 2 ELSE 1)
        den == 100000 * Pow2(k)
    IN  (2 * num + den) \div (2 * den)

\* double * double, c one of the values of np.cos/np.sin below, d an integer
FMul(c, d) == Float(c.int * d.int, 0, c.eps * d.int)

\* double + double, p a product of FMul, r an integer
FAdd(p, r) ==
    IF p.eps = 0 THEN FromInt(p.int + r.int)
    ELSE IF r.int = 0 THEN p
    ELSE LET towardZero == Sgn(p.eps) # Sgn(r.int)
             q == RoundEps(Abs(p.eps), Exponent(r.int),
                           towardZero /\ IsPow2(r.int))
         IN  Float(r.int, Sgn(p.eps) * q, 0)

(***************************************************************************)
(* OFFTools.deg2rad and numpy's cos/sin on its result.  The radian value   *)
(* of a multiple of 90 degrees is the double nearest to k*pi/2, kept as    *)
(* its quarter-turn count k.  The directions 0, 90 and 180 are modelled:   *)
(* cos = 1, e, -1 and sin = 0, 1, 2e.                                      *)
(***************************************************************************)
deg2rad(deg) == [quarter |-> deg \div 90]

cos(rad) ==
    CASE rad.quarter = 0 -> Float(1, 0, 0)
      [] rad.quarter = 1 -> Float(0, 0, 1)
      [] rad.quarter = 2 -> Float(-1, 0, 0)

sin(rad) ==
    CASE rad.quarter = 0 -> Float(0, 0, 0)
      [] rad.quarter = 1 -> Float(1, 0, 0)
      [] rad.quarter = 2 -> Float(0, 0, 2)

(***************************************************************************)
(* Inputs.                                                                 *)
(***************************************************************************)
Vec3(x, y, z) == [c \in 0..2 |-> FromInt(<<x, y, z>>[c + 1])]

WindSpeeds == {0, 8}
WindDirections == {0, 90, 180}
RotorPositions == {Vec3(100, 200, 50), Vec3(0, 1, -2)}
TimeSteps == {1, 2}
SetValues == {7}

Kinds == {"FLORIDynOPs4", "FLORIDynOPs6"}

(***************************************************************************)
(* State.                                                                  *)
(***************************************************************************)
VARIABLES
    kind,           \* the concrete class of the chain
    n_time_steps,   \* self.n_time_steps
    n_states,       \* self.n_states
    states,         \* self.states, rows 0..N-1, columns 0..W-1
    nsets,          \* number of set_state calls so far
    op,             \* the last call and its arguments
    ret             \* the outcome of the last get_world_coord call

vars == <<kind, n_time_steps, n_states, states, nsets, op, ret>>

None == "None"
AttributeError == "AttributeError"

\* the outcome of a call: a returned value, or an exception raised
Returned(v) == [raised |-> None, value |-> v]
Raised(e) == [raised |-> e, value |-> <<>>]

\* np.zeros((n, w))
zeros(n, w) == [i \in 0..(n - 1) |-> [c \in 0..(w - 1) |-> FromInt(0)]]

\* the instance attributes States.__init__ leaves on the object
Self == [states |-> states, n_time_steps |-> n_time_steps, n_states |-> n_states]

\* table[:, c] = vec
SetCol(table, c, vec) ==
    [i \in DOMAIN table |-> [table[i] EXCEPT ![c] = vec[i]]]

\* table[:, c] = scalar
SetColScalar(table, c, v) ==
    [i \in DOMAIN table |-> [table[i] EXCEPT ![c] = v]]

\* table[:, lo:hi]
Slice(table, lo, hi) ==
    [i \in DOMAIN table |-> [c \in 0..(hi - lo - 1) |-> table[i][lo + c]]]

\* np.arange(1, n + 1) * wind_speed: the ramp started one index late
RampFromOne(n, wind_speed) == [i \in 0..(n - 1) |-> FromInt((i + 1) * wind_speed)]

\* np.arange(n) * wind_speed
Ramp(n, wind_speed) == [i \in 0..(n - 1) |-> FromInt(i * wind_speed)]

\* scalar * vec + scalar
Affine(f, vec, r) == [i \in DOMAIN vec |-> FAdd(FMul(f, vec[i]), r)]

NoCall == [name |-> "__init__", ws |-> 0, wd |-> 0, rotor |-> Vec3(0, 0, 0),
           ts |-> 0, repeat |-> FALSE]

Init ==
    /\ kind \in Kinds
    /\ n_time_steps \in 1..MaxN
    /\ n_states = (IF kind = "FLORIDynOPs4" THEN 4 ELSE 6)
    /\ states = zeros(n_time_steps, n_states)
    /\ nsets = 0
    /\ op = NoCall
    /\ ret = Returned(<<>>)

(***************************************************************************)
(* FLORIDynOPs4                                                            *)
(***************************************************************************)
\* FLORIDynOPs4.get_world_coord: return self.states[:, 0:3]
get_world_coord4(self) == Returned(Slice(self.states, 0, 3))

\* init_all_states with np.sin and np.cos exchanged
init_all_states4_swapped(self, wind_speed, wind_direction, rotor_pos, time_step) ==
    LET dw == Ramp(self.n_time_steps, wind_speed)
        s0 == SetCol(self.states, 0,
                     Affine(sin(deg2rad(wind_direction)), dw, rotor_pos[0]))
        s1 == SetCol(s0, 1,
                     Affine(cos(deg2rad(wind_direction)), dw, rotor_pos[1]))
        s2 == SetColScalar(s1, 2, rotor_pos[2])
    IN  SetCol(s2, 3, dw)

\* init_all_states with the ramp scaled by time_step
init_all_states4_dt(self, wind_speed, wind_direction, rotor_pos, time_step) ==
    LET dw == Ramp(self.n_time_steps, wind_speed * time_step)
        s0 == SetCol(self.states, 0,
                     Affine(cos(deg2rad(wind_direction)), dw, rotor_pos[0]))
        s1 == SetCol(s0, 1,
                     Affine(sin(deg2rad(wind_direction)), dw, rotor_pos[1]))
        s2 == SetColScalar(s1, 2, rotor_pos[2])
    IN  SetCol(s2, 3, dw)

\* init_all_states with states[:, 3] += dw instead of states[:, 3] = dw
\* (the sum is kept below 64 so that the chain's states stay finitely many)
init_all_states4_accum(self, wind_speed, wind_direction, rotor_pos, time_step) ==
    LET dw == Ramp(self.n_time_steps, wind_speed)
        s0 == SetCol(self.states, 0,
                     Affine(cos(deg2rad(wind_direction)), dw, rotor_pos[0]))
        s1 == SetCol(s0, 1,
                     Affine(sin(deg2rad(wind_direction)), dw, rotor_pos[1]))
        s2 == SetColScalar(s1, 2, rotor_pos[2])
    IN  SetCol(s2, 3, [i \in DOMAIN dw |->
                          FromInt((self.states[i][3].int + dw[i].int) % 64)])

\* FLORIDynOPs4.init_all_states: the table self.states after the call
init_all_states4(self, wind_speed, wind_direction, rotor_pos, time_step) ==
    LET dw == Ramp(self.n_time_steps, wind_speed)
        s0 == SetCol(self.states, 0,
                     Affine(cos(deg2rad(wind_direction)), dw, rotor_pos[0]))
        s1 == SetCol(s0, 1,
                     Affine(sin(deg2rad(wind_direction)), dw, rotor_pos[1]))
        s2 == SetColScalar(s1, 2, rotor_pos[2])
    IN  SetCol(s2, 3, dw)

(***************************************************************************)
(* FLORIDynOPs6                                                            *)
(***************************************************************************)
\* FLORIDynOPs6.get_world_coord: return self.op_list[:, 0:3]
get_world_coord6(self) ==
    IF "op_list" \in DOMAIN self THEN Returned(Slice(self["op_list"], 0, 3))
    ELSE Raised(AttributeError)

\* init_all_states that also clears the wake-frame columns 4 and 5
init_all_states6_clear(self, wind_speed, wind_direction, rotor_pos, time_step) ==
    LET dw == Ramp(self.n_time_steps, wind_speed)
        s0 == SetCol(self.states, 0,
                     Affine(cos(deg2rad(wind_direction)), dw, rotor_pos[0]))
        s1 == SetCol(s0, 1,
                     Affine(sin(deg2rad(wind_direction)), dw, rotor_pos[1]))
        s2 == SetColScalar(s1, 2, rotor_pos[2])
        s3 == SetCol(s2, 3, dw)
    IN  SetColScalar(SetColScalar(s3, 4, FromInt(0)), 5, FromInt(0))

\* init_all_states with np.sin and np.cos exchanged
init_all_states6_swapped(self, wind_speed, wind_direction, rotor_pos, time_step) ==
    LET dw == Ramp(self.n_time_steps, wind_speed)
        s0 == SetCol(self.states, 0,
                     Affine(sin(deg2rad(wind_direction)), dw, rotor_pos[0]))
        s1 == SetCol(s0, 1,
                     Affine(cos(deg2rad(wind_direction)), dw, rotor_pos[1]))
        s2 == SetColScalar(s1, 2, rotor_pos[2])
    IN  SetCol(s2, 3, dw)

\* init_all_states that forgets the rotor offset of x
init_all_states6_no_offset(self, wind_speed, wind_direction, rotor_pos, time_step) ==
    LET dw == Ramp(self.n_time_steps, wind_speed)
        s0 == SetCol(self.states, 0,
                     Affine(cos(deg2rad(wind_direction)), dw, FromInt(0)))
        s1 == SetCol(s0, 1,
                     Affine(sin(deg2rad(wind_direction)), dw, rotor_pos[1]))
        s2 == SetColScalar(s1, 2, rotor_pos[2])
    IN  SetCol(s2, 3, dw)

\* init_all_states that rebuilds the table from its four columns
init_all_states6_rebuild(self, wind_speed, wind_direction, rotor_pos, time_step) ==
    LET dw == Ramp(self.n_time_steps, wind_speed)
        x  == Affine(cos(deg2rad(wind_direction)), dw, rotor_pos[0])
        y  == Affine(sin(deg2rad(wind_direction)), dw, rotor_pos[1])
    IN  [i \in DOMAIN dw |->
            [c \in 0..3 |-> CASE c = 0 -> x[i] [] c = 1 -> y[i]
                              [] c = 2 -> rotor_pos[2] [] c = 3 -> dw[i]]]

\* init_all_states with the height taken from rotor_pos[1]
init_all_states6_height(self, wind_speed, wind_direction, rotor_pos, time_step) ==
    LET dw == Ramp(self.n_time_steps, wind_speed)
        s0 == SetCol(self.states, 0,
                     Affine(cos(deg2rad(wind_direction)), dw, rotor_pos[0]))
        s1 == SetCol(s0, 1,
                     Affine(sin(deg2rad(wind_direction)), dw, rotor_pos[1]))
        s2 == SetColScalar(s1, 2, rotor_pos[1])
    IN  SetCol(s2, 3, dw)

\* FLORIDynOPs6.init_all_states: the table self.states after the call
init_all_states6(self, wind_speed, wind_direction, rotor_pos, time_step) ==
    LET dw == Ramp(self.n_time_steps, wind_speed)
        s0 == SetCol(self.states, 0,
                     Affine(cos(deg2rad(wind_direction)), dw, rotor_pos[0]))
        s1 == SetCol(s0, 1,
                     Affine(sin(deg2rad(wind_direction)), dw, rotor_pos[1]))
        s2 == SetColScalar(s1, 2, rotor_pos[2])
    IN  SetCol(s2, 3, dw)

(***************************************************************************)
(* States.set_state(index, row): overwrite one row                         *)
(***************************************************************************)
set_state(self, index, row) == [self.states EXCEPT ![index] = row]

(***************************************************************************)
(* Calls on the chain                                                      *)
(***************************************************************************)
InitCall(ws, wd, rotor, ts) ==
    [name |-> "init_all_states", ws |-> ws, wd |-> wd, rotor |-> rotor, ts |-> ts,
     repeat |-> /\ op.name = "init_all_states"
                /\ op.ws = ws /\ op.wd = wd /\ op.rotor = rotor /\ op.ts = ts]

OtherCall(name) == [NoCall EXCEPT !.name = name]

InitAllStates4 ==
    /\ kind = "FLORIDynOPs4"
    /\ \E ws \in WindSpeeds, wd \in WindDirections,
          rotor \in RotorPositions, ts \in TimeSteps :
            /\ states' = init_all_states4(Self, ws, wd, rotor, ts)
            /\ op' = InitCall(ws, wd, rotor, ts)
    /\ ret' = Returned(<<>>)
    /\ UNCHANGED <<kind, n_time_steps, n_states, nsets>>

InitAllStates6 ==
    /\ kind = "FLORIDynOPs6"
    /\ \E ws \in WindSpeeds, wd \in WindDirections,
          rotor \in RotorPositions, ts \in TimeSteps :
            /\ states' = init_all_states6(Self, ws, wd, rotor, ts)
            /\ op' = InitCall(ws, wd, rotor, ts)
    /\ ret' = Returned(<<>>)
    /\ UNCHANGED <<kind, n_time_steps, n_states, nsets>>

GetWorldCoord4 ==
    /\ kind = "FLORIDynOPs4"
    /\ ret' = get_world_coord4(Self)
    /\ op' = OtherCall("get_world_coord")
    /\ UNCHANGED <<kind, n_time_steps, n_states, states, nsets>>

GetWorldCoord6 ==
    /\ kind = "FLORIDynOPs6"
    /\ ret' = get_world_coord6(Self)
    /\ op' = OtherCall("get_world_coord")
    /\ UNCHANGED <<kind, n_time_steps, n_states, states, nsets>>

SetState ==
    /\ nsets < MaxSets
    /\ \E index \in 0..(n_time_steps - 1), v \in SetValues :
            states' = set_state(Self, index, [c \in 0..(n_states - 1) |-> FromInt(v)])
    /\ nsets' = nsets + 1
    /\ op' = OtherCall("set_state")
    /\ ret' = Returned(<<>>)
    /\ UNCHANGED <<kind, n_time_steps, n_states>>

Next ==
    \/ InitAllStates4
    \/ InitAllStates6
    \/ GetWorldCoord4
    \/ GetWorldCoord6
    \/ SetState

Spec == Init /\ [][Next]_vars

(***************************************************************************)
(* Properties                                                              *)
(***************************************************************************)
Rows == 0..(n_time_steps - 1)

AfterInit == op.name = "init_all_states"

\* order of doubles; the deviation from .int is always below 1/2
FLess(u, v) ==
    \/ u.int < v.int
    \/ /\ u.int = v.int
       /\ \/ u.ulps < v.ulps
          \/ u.ulps = v.ulps /\ u.eps < v.eps

StrictlyIncreasing(c) ==
    \A i, j \in Rows : i < j => FLess(states[i][c], states[j][c])

\* the table a fresh FLORIDynOPs4 chain of the same length gets from the
\* arguments of the last call
Fresh4 == [states |-> zeros(n_time_steps, 4), n_time_steps |-> n_time_steps,
           n_states |-> 4]

\* C1: get_world_coord succeeds, for both variants, and returns the N x 3
\* matrix of columns 0, 1, 2 of the table init_all_states writes to.
C1_WorldCoordIsColumns012 ==
    op.name = "get_world_coord" =>
        /\ ret.raised = None
        /\ ret.value = [i \in Rows |-> [c \in 0..2 |-> states[i][c]]]

\* C2: after FLORIDynOPs4.init_all_states, x[i] = cos(rad) * (i * wind_speed)
\* + rotor_pos.x and y[i] = sin(rad) * (i * wind_speed) + rotor_pos.y in
\* double arithmetic; N=5, wind_speed=8, wind_direction=0,
\* rotor_pos=(100,200,50) gives x=[100,108,116,124,132], y=[200]*5, z=[50]*5,
\* column 3=[0,8,16,24,32].
C2_Init4Formula ==
    (AfterInit /\ kind = "FLORIDynOPs4") =>
        /\ \A i \in Rows :
            /\ states[i][0] = FAdd(FMul(cos(deg2rad(op.wd)), FromInt(i * op.ws)),
                                   op.rotor[0])
            /\ states[i][1] = FAdd(FMul(sin(deg2rad(op.wd)), FromInt(i * op.ws)),
                                   op.rotor[1])
        /\ (/\ n_time_steps = 5 /\ op.ws = 8 /\ op.wd = 0
            /\ op.rotor = Vec3(100, 200, 50)) =>
                states = [i \in 0..4 |-> [c \in 0..3 |->
                    FromInt(CASE c = 0 -> <<100, 108, 116, 124, 132>>[i + 1]
                              [] c = 1 -> 200
                              [] c = 2 -> 50
                              [] c = 3 -> <<0, 8, 16, 24, 32>>[i + 1])]]

C2_Scenario ==
    /\ AfterInit /\ kind = "FLORIDynOPs4" /\ n_time_steps = 5
    /\ op.ws = 8 /\ op.wd = 0 /\ op.ts = 1 /\ op.rotor = Vec3(100, 200, 50)
    /\ states[4][0] = FromInt(132)

\* C3 as stated: FLORIDynOPs6.init_all_states leaves columns 3, 4 and 5 of
\* every row at the value they held before the call.
C3_Columns345Kept ==
    [][(op'.name = "init_all_states" /\ kind = "FLORIDynOPs6") =>
          \A i \in Rows : \A c \in 3..5 : states'[i][c] = states[i][c]]_vars

\* C3 amended: FLORIDynOPs6.init_all_states leaves columns 4 and 5 of every
\* row at the value they held before the call and writes i * wind_speed to
\* column 3.
C3_Columns45Kept ==
    [][(op'.name = "init_all_states" /\ kind = "FLORIDynOPs6") =>
          \A i \in Rows :
              /\ states'[i][4] = states[i][4]
              /\ states'[i][5] = states[i][5]
              /\ states'[i][3] = FromInt(i * op'.ws)]_vars

C3_KeptOverInit ==
    /\ AfterInit /\ kind = "FLORIDynOPs6" /\ op.ws = 8
    /\ \E i \in Rows : /\ i >= 1
                       /\ states[i][4] = FromInt(7) /\ states[i][5] = FromInt(7)
                       /\ states[i][3] = FromInt(8 * i)

C5_Idempotent ==
    [][(/\ op.name = "init_all_states" /\ op'.name = "init_all_states"
        /\ op'.ws = op.ws /\ op'.wd = op.wd /\ op'.rotor = op.rotor
        /\ op'.ts = op.ts) => states' = states]_vars

C5_CalledTwice ==
    /\ AfterInit /\ op.repeat /\ op.ws = 8 /\ n_time_steps >= 2
    /\ states[1][3] = FromInt(8)

\* C6 as stated: after init_all_states with positive wind_speed, direction 0
\* gives y[i] = rotor_pos.y and x strictly increasing; direction 90 gives
\* x[i] = rotor_pos.x and y strictly increasing.
C6_DirectionExact ==
    (AfterInit /\ op.ws > 0) =>
        /\ op.wd = 0 => /\ \A i \in Rows : states[i][1] = op.rotor[1]
                        /\ StrictlyIncreasing(0)
        /\ op.wd = 90 => /\ \A i \in Rows : states[i][0] = op.rotor[0]
                         /\ StrictlyIncreasing(1)

\* C6 amended: direction 0 as stated; direction 90 gives y strictly
\* increasing, x[0] = rotor_pos.x, and every x[i] at or above rotor_pos.x by
\* no more than the rounded residue of cos(pi/2 as a double) * i * wind_speed,
\* never decreasing along the chain.
C6_DirectionUpToResidue ==
    (AfterInit /\ op.ws > 0) =>
        /\ op.wd = 0 => /\ \A i \in Rows : states[i][1] = op.rotor[1]
                        /\ StrictlyIncreasing(0)
        /\ op.wd = 90 =>
              /\ StrictlyIncreasing(1)
              /\ states[0][0] = op.rotor[0]
              /\ \A i \in Rows : /\ states[i][0].int = op.rotor[0].int
                                 /\ ~FLess(states[i][0], op.rotor[0])
              /\ \A i, j \in Rows : i < j => ~FLess(states[j][0], states[i][0])

C6_ResidueSeen ==
    /\ AfterInit /\ op.ws = 8 /\ op.wd = 90 /\ n_time_steps >= 2
    /\ states[1][0] # op.rotor[0]
    /\ states[1][1] = FromInt(op.rotor[1].int + 8)

\* C7: after init_all_states on either variant, column 2 holds rotor_pos.z
\* in every row.
C7_Height ==
    AfterInit => \A i \in Rows : states[i][2] = op.rotor[2]

C7_HeightOverwritten ==
    /\ AfterInit /\ kind = "FLORIDynOPs6" /\ op.rotor[2] = FromInt(-2)
    /\ \E i \in Rows : states[i][4] = FromInt(7) /\ states[i][2] = FromInt(-2)

\* the table the chain's own init_all_states produces
InitResult(self, ws, wd, rotor, ts) ==
    IF kind = "FLORIDynOPs4" THEN init_all_states4(self, ws, wd, rotor, ts)
    ELSE init_all_states6(self, ws, wd, rotor, ts)

\* C8: the table after init_all_states is the one every other time_step
\* would have produced from the same starting table and arguments.
C8_TimeStepIgnored ==
    [][op'.name = "init_all_states" =>
          \A ts \in TimeSteps :
              states' = InitResult(Self, op'.ws, op'.wd, op'.rotor, ts)]_vars

C8_OtherTimeStep ==
    /\ AfterInit /\ op.ts = 2 /\ op.ws = 8 /\ n_time_steps >= 2
    /\ states[1][3] = FromInt(8) /\ nsets = 0

\* C9: columns 0, 1, 2 of a FLORIDynOPs6 table after init_all_states equal
\* those of a FLORIDynOPs4 table of the same length after init_all_states
\* with the same arguments.
C9_SameGeometry ==
    (AfterInit /\ kind = "FLORIDynOPs6") =>
        Slice(states, 0, 3) =
            Slice(init_all_states4(Fresh4, op.ws, op.wd, op.rotor, op.ts), 0, 3)

C9_GeometryReached ==
    /\ AfterInit /\ kind = "FLORIDynOPs6" /\ op.ws = 8 /\ op.wd = 180
    /\ n_time_steps >= 3 /\ states[2][0] = FromInt(op.rotor[0].int - 16)

\* C10: the table has exactly n_time_steps rows and n_states columns, 4 for
\* FLORIDynOPs4 and 6 for FLORIDynOPs6, in every reachable state, and
\* n_time_steps and n_states never change.
C10_Shape ==
    /\ [](/\ n_time_steps >= 1
          /\ n_states = (IF kind = "FLORIDynOPs4" THEN 4 ELSE 6)
          /\ DOMAIN states = 0..(n_time_steps - 1)
          /\ \A i \in DOMAIN states : DOMAIN states[i] = 0..(n_states - 1))
    /\ [][/\ n_time_steps' = n_time_steps
          /\ n_states' = n_states
          /\ kind' = kind]_vars

C10_ShapeAfterCalls ==
    /\ kind = "FLORIDynOPs6" /\ n_time_steps = MaxN /\ op.name = "get_world_coord"
    /\ states[MaxN - 1][3] = FromInt(8 * (MaxN - 1))
    /\ DOMAIN states[MaxN - 1] = 0..5

====
